---- MODULE Spec2Model ----
(***************************************************************************)
(* Model of the float-classify crate (src/src/lib.rs): the CatFloat enum,  *)
(* its five predicates and `impl Category for f64`.                        *)
(*                                                                         *)
(* An f64 is modelled at the bit level as an IEEE-754 binary interchange   *)
(* format with one sign bit, EBits exponent bits and MBits fraction bits   *)
(* (binary64 is EBits = 11, MBits = 52).  The format is scaled down so     *)
(* that every bit pattern can be enumerated; zero, negative zero,          *)
(* subnormals, normals, both infinities and every NaN payload exist in it, *)
(* and arithmetic rounds to nearest, ties to even, as the hardware does.   *)
(***************************************************************************)
EXTENDS Integers, Sequences, FiniteSets

\* ---- bounds ------------------------------------------------------------
EBits == 4
MBits == 4
MaxCalls == 2

\* ---- the f64 format ----------------------------------------------------
RECURSIVE Pow2(_)
Pow2(n) == IF n <= 0 THEN 1 ELSE 2 * Pow2(n - 1)

RECURSIVE BitLen(_)
BitLen(n) == IF n <= 0 THEN 0 ELSE 1 + BitLen(n \div 2)

ExpMax == Pow2(EBits) - 1
Bias == Pow2(EBits - 1) - 1
Hidden == Pow2(MBits)

\* every bit pattern: s sign bit, e biased exponent field, m fraction field
F64 == [s : {0, 1}, e : 0..ExpMax, m : 0..(Hidden - 1)]

BitsNaN(x) == x.e = ExpMax /\ x.m # 0
BitsInf(x) == x.e = ExpMax /\ x.m = 0
BitsFinite(x) == x.e < ExpMax
\* exponent of the last place is Q(x) - Bias - MBits; significand is Sig(x)
Q(x) == IF x.e = 0 THEN 1 ELSE x.e
Sig(x) == IF x.e = 0 THEN x.m ELSE Hidden + x.m
BitsZero(x) == x.e = 0 /\ x.m = 0

INFINITY == [s |-> 0, e |-> ExpMax, m |-> 0]
NEG_INFINITY == [s |-> 1, e |-> ExpMax, m |-> 0]
NAN == [s |-> 0, e |-> ExpMax, m |-> Hidden \div 2]
PosZero == [s |-> 0, e |-> 0, m |-> 0]
NegZero == [s |-> 1, e |-> 0, m |-> 0]

FNeg(x) == [x EXCEPT !.s = 1 - x.s]
FAbs(x) == [x EXCEPT !.s = 0]

\* IEEE comparison ==: NaN equals nothing, +0.0 equals -0.0
FEq(a, b) ==
    /\ ~BitsNaN(a)
    /\ ~BitsNaN(b)
    /\ \/ a = b
       \/ BitsZero(a) /\ BitsZero(b)

\* magnitude order of two non-NaN values
MagLe(a, b) == Q(a) < Q(b) \/ (Q(a) = Q(b) /\ Sig(a) <= Sig(b))

\* round the exact magnitude R * 2^(q - Bias - MBits), R > 0, to nearest even
RoundPack(s, R, q) ==
    LET n == BitLen(R) IN
    IF n <= MBits + 1
    THEN LET k == IF MBits + 1 - n < q - 1 THEN MBits + 1 - n ELSE q - 1
             R2 == R * Pow2(k)
         IN  IF R2 < Hidden
             THEN [s |-> s, e |-> 0, m |-> R2]
             ELSE [s |-> s, e |-> q - k, m |-> R2 - Hidden]
    ELSE LET k == n - (MBits + 1)
             t == R \div Pow2(k)
             rem == R % Pow2(k)
             half == Pow2(k - 1)
             up == rem > half \/ (rem = half /\ t % 2 = 1)
             t2 == IF up THEN t + 1 ELSE t
             carry == t2 = 2 * Hidden
             t3 == IF carry THEN Hidden ELSE t2
             q3 == IF carry THEN q + k + 1 ELSE q + k
         IN  IF q3 >= ExpMax
             THEN [s |-> s, e |-> ExpMax, m |-> 0]
             ELSE [s |-> s, e |-> q3, m |-> t3 - Hidden]

\* IEEE addition, round to nearest, ties to even
FAdd(a, b) ==
    IF BitsNaN(a) \/ BitsNaN(b) THEN NAN
    ELSE IF BitsInf(a) THEN (IF BitsInf(b) /\ a.s # b.s THEN NAN ELSE a)
    ELSE IF BitsInf(b) THEN b
    ELSE LET hi == IF MagLe(b, a) THEN a ELSE b
             lo == IF MagLe(b, a) THEN b ELSE a
             d == Q(hi) - Q(lo)
         IN  IF Sig(lo) = 0
             THEN (IF Sig(hi) = 0
                   THEN (IF a.s = 1 /\ b.s = 1 THEN NegZero ELSE PosZero)
                   ELSE hi)
             ELSE IF d > MBits + 3 THEN hi
             ELSE LET A == Sig(hi) * Pow2(d)
                      R == IF hi.s = lo.s THEN A + Sig(lo) ELSE A - Sig(lo)
                  IN  IF R = 0 THEN PosZero ELSE RoundPack(hi.s, R, Q(lo))

FSub(a, b) == FAdd(a, FNeg(b))

\* ---- f64 methods used by category --------------------------------------
\* is_infinite that forgets the negative infinity
is_infinite_pos_only(x) == FEq(x, INFINITY)

\* f64::is_infinite: (self == INFINITY) | (self == NEG_INFINITY)
is_infinite(x) == FEq(x, INFINITY) \/ FEq(x, NEG_INFINITY)

\* is_nan written as a comparison with the NAN constant, which is never true
f64_is_nan_eq_NAN(x) == FEq(x, NAN)

\* f64::is_nan: self != self
f64_is_nan(x) == ~FEq(x, x)

\* trunc whose mask keeps the first fraction bit
trunc_mask_off_by_one(x) ==
    IF x.e = ExpMax THEN x
    ELSE IF x.e < Bias THEN [s |-> x.s, e |-> 0, m |-> 0]
    ELSE IF x.e - Bias >= MBits THEN x
    ELSE LET drop == Pow2(MBits - (x.e - Bias) - 1)
         IN  [x EXCEPT !.m = x.m - (x.m % drop)]

\* f64::trunc: round to integral toward zero; the sign bit is kept, so a
\* value of magnitude below one becomes a zero of the same sign
trunc(x) ==
    IF x.e = ExpMax THEN x
    ELSE IF x.e < Bias THEN [s |-> x.s, e |-> 0, m |-> 0]
    ELSE IF x.e - Bias >= MBits THEN x
    ELSE LET drop == Pow2(MBits - (x.e - Bias))
         IN  [x EXCEPT !.m = x.m - (x.m % drop)]

\* f64::fract: self - self.trunc()
fract_abs(x) == FAbs(FSub(x, trunc(x)))

fract(x) == FSub(x, trunc(x))

\* num::traits::Zero for f64: *self == 0.0
is_zero_bits(x) == x = PosZero

is_zero(x) == FEq(x, PosZero)

\* ---- enum CatFloat -----------------------------------------------------
IntegerLike(p) == [tag |-> "IntegerLike", p |-> <<p>>]
FractionLike(p) == [tag |-> "FractionLike", p |-> <<p>>]
IntegerAndFractionalPart(ip, fp) == [tag |-> "IntegerAndFractionalPart", p |-> <<ip, fp>>]
Nan == [tag |-> "Nan", p |-> <<>>]
Infinity == [tag |-> "Infinity", p |-> <<>>]

\* the values of the enum: one of five variants, each with its own fields
CatFloat(c) ==
    /\ c.tag \in {"IntegerLike", "FractionLike", "IntegerAndFractionalPart", "Nan", "Infinity"}
    /\ Len(c.p) = (IF c.tag \in {"IntegerLike", "FractionLike"} THEN 1
                   ELSE IF c.tag = "IntegerAndFractionalPart" THEN 2 ELSE 0)
    /\ \A k \in 1..Len(c.p) : c.p[k] \in F64

\* #[derive(PartialEq)]: same variant, and the fields equal under f64's ==
CatFloat_eq(a, b) ==
    /\ a.tag = b.tag
    /\ Len(a.p) = Len(b.p)
    /\ \A k \in 1..Len(a.p) : FEq(a.p[k], b.p[k])

\* ---- impl CatFloat -----------------------------------------------------
is_integer_like(c) == c.tag = "IntegerLike"
is_fraction_like(c) == c.tag = "FractionLike"
is_integer_and_fractional_part(c) == c.tag = "IntegerAndFractionalPart"
is_infinity(c) == c.tag = "Infinity"
is_nan_or_infinity(c) == c.tag \in {"Nan", "Infinity"}

is_nan(c) == c.tag = "Nan"

\* ---- impl Category for f64 ---------------------------------------------
\* variants of category with one slip each
Panicked == [tag |-> "panicked", p |-> <<>>]

category_unwrap_panics(self) ==
    IF is_infinite(self) THEN Infinity
    ELSE IF f64_is_nan(self) THEN Panicked
    ELSE LET int_part == trunc(self)
             fract_part == fract(self)
         IN  IF is_zero(fract_part) THEN IntegerLike(int_part)
             ELSE IF is_zero(int_part) THEN FractionLike(fract_part)
             ELSE IntegerAndFractionalPart(int_part, fract_part)

category_abs_int(self) ==
    IF is_infinite(self) THEN Infinity
    ELSE IF f64_is_nan(self) THEN Nan
    ELSE LET int_part == FAbs(trunc(self))
             fract_part == fract(self)
         IN  IF is_zero(fract_part) THEN IntegerLike(int_part)
             ELSE IF is_zero(int_part) THEN FractionLike(fract_part)
             ELSE IntegerAndFractionalPart(int_part, fract_part)

category_int_test_first(self) ==
    IF is_infinite(self) THEN Infinity
    ELSE IF f64_is_nan(self) THEN Nan
    ELSE LET int_part == trunc(self)
             fract_part == fract(self)
         IN  IF is_zero(int_part) THEN FractionLike(fract_part)
             ELSE IF is_zero(fract_part) THEN IntegerLike(int_part)
             ELSE IntegerAndFractionalPart(int_part, fract_part)

category_no_checks(self) ==
    LET int_part == trunc(self)
        fract_part == fract(self)
    IN  IF is_zero(fract_part) THEN IntegerLike(int_part)
        ELSE IF is_zero(int_part) THEN FractionLike(fract_part)
        ELSE IntegerAndFractionalPart(int_part, fract_part)

category(self) ==
    IF is_infinite(self) THEN Infinity
    ELSE IF f64_is_nan(self) THEN Nan
    ELSE LET int_part == trunc(self)
             fract_part == fract(self)
         IN  IF is_zero(fract_part) THEN IntegerLike(int_part)
             ELSE IF is_zero(int_part) THEN FractionLike(fract_part)
             ELSE IntegerAndFractionalPart(int_part, fract_part)

\* ---- literals of the test trait_works and of the doc comments ----------
\* the value (-1)^s * n / 2^k, which the format holds exactly
Exact(s, n, k) ==
    CHOOSE x \in F64 :
        /\ BitsFinite(x)
        /\ x.s = s
        /\ LET sh == Q(x) - Bias - MBits + k
           IN  IF sh >= 0
               THEN sh <= BitLen(n) /\ Sig(x) * Pow2(sh) = n
               ELSE -sh <= MBits + 1 /\ Sig(x) = n * Pow2(-sh)

\* a decimal literal (-1)^s * num / den below one: the nearest value of the
\* format, ties to the even fraction field
SubOne == {x \in F64 : x.s = 0 /\ (x.e < Bias \/ (x.e = Bias /\ x.m = 0))}
Units(x) == Sig(x) * Pow2(Q(x) - 1)
Dist(x, num, den) ==
    LET d == Units(x) * den - num * Pow2(Bias + MBits - 1)
    IN  IF d < 0 THEN -d ELSE d
Decimal(s, num, den) ==
    LET best == CHOOSE x \in SubOne :
                    \A y \in SubOne :
                        \/ Dist(x, num, den) < Dist(y, num, den)
                        \/ y = x
                        \/ Dist(x, num, den) = Dist(y, num, den) /\ x.m % 2 = 0
    IN  [best EXCEPT !.s = s]

Lit_1_5 == Exact(0, 3, 1)
Lit_1_0 == Exact(0, 1, 0)
Lit_0_5 == Exact(0, 1, 1)
Lit_100 == Exact(0, 100, 0)
Lit_neg_100 == Exact(1, 100, 0)
Lit_0_2 == Decimal(0, 2, 10)
Lit_neg_0_002 == Decimal(1, 2, 1000)

\* ---- the caller: a value f, calls of f.category(), calls of predicates --
VARIABLES f, ret, prev, calls, query
vars == <<f, ret, prev, calls, query>>

NoCall == [tag |-> "none", p |-> <<>>]
NoQuery == [fn |-> "none", on |-> NoCall, ans |-> FALSE]

Init ==
    /\ f \in F64
    /\ ret = NoCall
    /\ prev = NoCall
    /\ calls = 0
    /\ query = NoQuery

\* let c = f.category();
Call_category ==
    /\ calls < MaxCalls
    /\ ret' = category(f)
    /\ prev' = ret
    /\ calls' = calls + 1
    /\ UNCHANGED <<f, query>>

\* c.is_xxx(): takes &self, answers a bool
Call_is_integer_like ==
    /\ calls > 0
    /\ query' = [fn |-> "IntegerLike", on |-> ret, ans |-> is_integer_like(ret)]
    /\ UNCHANGED <<f, ret, prev, calls>>

Call_is_fraction_like ==
    /\ calls > 0
    /\ query' = [fn |-> "FractionLike", on |-> ret, ans |-> is_fraction_like(ret)]
    /\ UNCHANGED <<f, ret, prev, calls>>

Call_is_integer_and_fractional_part ==
    /\ calls > 0
    /\ query' = [fn |-> "IntegerAndFractionalPart", on |-> ret,
                 ans |-> is_integer_and_fractional_part(ret)]
    /\ UNCHANGED <<f, ret, prev, calls>>

Call_is_infinity ==
    /\ calls > 0
    /\ query' = [fn |-> "Infinity", on |-> ret, ans |-> is_infinity(ret)]
    /\ UNCHANGED <<f, ret, prev, calls>>

Call_is_nan ==
    /\ calls > 0
    /\ query' = [fn |-> "Nan", on |-> ret, ans |-> is_nan(ret)]
    /\ UNCHANGED <<f, ret, prev, calls>>

Next ==
    \/ Call_category
    \/ Call_is_integer_like
    \/ Call_is_fraction_like
    \/ Call_is_integer_and_fractional_part
    \/ Call_is_infinity
    \/ Call_is_nan

Spec == Init /\ [][Next]_vars

\* ---- vocabulary of the properties: values read off the encoding --------
\* x is finite and its value is a whole number
IsIntegerValued(x) ==
    /\ BitsFinite(x)
    /\ \/ Q(x) >= Bias + MBits
       \/ Sig(x) % Pow2(Bias + MBits - Q(x)) = 0
AbsLtOne(x) == BitsFinite(x) /\ x.e < Bias
AbsGeOne(x) == BitsFinite(x) /\ x.e >= Bias
AbsGtOne(x) == BitsFinite(x) /\ (x.e > Bias \/ (x.e = Bias /\ x.m # 0))
\* value * 2^MBits of a finite x with 1 <= |x| < 2^MBits
Fix(x) == Sig(x) * Pow2(Q(x) - Bias)
\* i is x rounded to a whole number toward zero, stated on the values
IsTruncOf(i, x) ==
    IF x.e >= Bias + MBits THEN i = x
    ELSE IF x.e < Bias THEN i = [s |-> x.s, e |-> 0, m |-> 0]
    ELSE /\ i.s = x.s
         /\ i.e >= Bias
         /\ i.e <= x.e
         /\ Fix(i) % Hidden = 0
         /\ Fix(x) - Fix(i) >= 0
         /\ Fix(x) - Fix(i) < Hidden
Variants == {"IntegerLike", "FractionLike", "IntegerAndFractionalPart", "Nan", "Infinity"}
Called == calls > 0

\* C1: totality - for every input bit pattern (finite, both zeros, subnormal,
\* NaN, both infinities) a call of category returns a well-formed CatFloat of
\* exactly one of the five variants, and never a failure.
C1_Totality ==
    Called =>
        /\ CatFloat(ret)
        /\ Cardinality({t \in Variants : ret.tag = t}) = 1
C1_Witness == Called /\ f = [s |-> 1, e |-> 0, m |-> 1] /\ ret.tag = "FractionLike"

\* C2: special values - category(+Infinity) and category(-Infinity) are
\* Infinity, category(NaN) is Nan for every NaN payload, and no special value
\* reaches one of the three arithmetic variants.
C2_SpecialValues ==
    Called =>
        /\ f = INFINITY => ret = Infinity
        /\ f = NEG_INFINITY => ret = Infinity
        /\ BitsNaN(f) => ret = Nan
        /\ (BitsNaN(f) \/ BitsInf(f)) =>
               ret.tag \notin {"IntegerLike", "FractionLike", "IntegerAndFractionalPart"}
C2_Witness == Called /\ f = NEG_INFINITY /\ ret = Infinity

\* C3: reconstruction - when category(v) is IntegerAndFractionalPart(i, fr), i
\* is v truncated toward zero, fr is v - i, i + fr is v again, both parts are
\* nonzero and carry the sign of v; category(1.5) is (1.0, 0.5).
C3_Reconstruction ==
    /\ (Called /\ ret.tag = "IntegerAndFractionalPart") =>
           LET i == ret.p[1]
               fr == ret.p[2]
           IN  /\ BitsFinite(f)
               /\ IsTruncOf(i, f)
               /\ fr = FSub(f, i)
               /\ FAdd(i, fr) = f
               /\ ~BitsZero(i) /\ BitsFinite(i)
               /\ ~BitsZero(fr) /\ BitsFinite(fr)
               /\ i.s = f.s
               /\ fr.s = f.s
    /\ (Called /\ f = Lit_1_5) => ret = IntegerAndFractionalPart(Lit_1_0, Lit_0_5)
C3_Witness ==
    /\ Called
    /\ f = FNeg(Lit_1_5)
    /\ ret = IntegerAndFractionalPart(FNeg(Lit_1_0), FNeg(Lit_0_5))

\* C4: IntegerLike payload - a finite whole-valued input v gives
\* IntegerLike(v): the payload is the truncated integer part, which is v
\* itself, sign included; -100.0 gives IntegerLike(-100.0), not 100.0.
C4_IntegerLikePayload ==
    /\ (Called /\ IsIntegerValued(f)) =>
           /\ ret = IntegerLike(f)
           /\ IsTruncOf(ret.p[1], f)
    /\ (Called /\ f = Lit_neg_100) =>
           /\ ret = IntegerLike(Lit_neg_100)
           /\ ~CatFloat_eq(ret, IntegerLike(Lit_100))
    /\ (Called /\ f = Lit_1_0) => ret = IntegerLike(Lit_1_0)
C4_Witness == Called /\ f = Lit_neg_100 /\ ret = IntegerLike(Lit_neg_100)

\* C5: zero - category(0.0) is IntegerLike(0.0), category(-0.0) is
\* IntegerLike(-0.0), and a zero is never FractionLike.
C5_Zero ==
    Called =>
        /\ f = PosZero => ret = IntegerLike(PosZero)
        /\ f = NegZero => ret = IntegerLike(NegZero)
        /\ BitsZero(f) => ret.tag # "FractionLike"
C5_Witness == Called /\ f = NegZero /\ ret = IntegerLike(NegZero)

\* C6: FractionLike payload - a finite input v with 0 < |v| < 1, subnormals
\* included, gives FractionLike(v): the payload is the signed remainder, which
\* is v itself; 0.2 gives FractionLike(0.2), -0.002 gives FractionLike(-0.002).
C6_FractionLikePayload ==
    /\ (Called /\ AbsLtOne(f) /\ ~BitsZero(f)) =>
           /\ ret = FractionLike(f)
           /\ ret.p[1] = FSub(f, [s |-> f.s, e |-> 0, m |-> 0])
    /\ (Called /\ f = Lit_0_2) => ret = FractionLike(Lit_0_2)
    /\ (Called /\ f = Lit_neg_0_002) => ret = FractionLike(Lit_neg_0_002)
C6_Witness == Called /\ f = Lit_neg_0_002 /\ ret = FractionLike(Lit_neg_0_002)

\* C7: predicates - of the five predicates exactly one is true of a value
\* category produced, the one named after its variant; a predicate call
\* answers accordingly and leaves the value as it was.
PredTrue(c) ==
    {n \in Variants :
        \/ n = "IntegerLike" /\ is_integer_like(c)
        \/ n = "FractionLike" /\ is_fraction_like(c)
        \/ n = "IntegerAndFractionalPart" /\ is_integer_and_fractional_part(c)
        \/ n = "Nan" /\ is_nan(c)
        \/ n = "Infinity" /\ is_infinity(c)}
C7_PredicatesExclusive ==
    /\ Called => PredTrue(ret) = {ret.tag}
    /\ query # NoQuery =>
           /\ query.on = ret
           /\ query.ans = (query.fn = ret.tag)
C7_Witness == query.fn = "Nan" /\ query.ans = FALSE /\ ret = Infinity

\* C8: no special payload - whatever the input, NaN and the infinities
\* included, every payload of the result is a finite number.
C8_FinitePayloads ==
    Called => \A k \in 1..Len(ret.p) : BitsFinite(ret.p[k])
C8_Witness ==
    /\ Called
    /\ f = [s |-> 0, e |-> ExpMax - 1, m |-> Hidden - 1]
    /\ ret = IntegerLike(f)

\* C9: the variant characterises the input - IntegerLike iff finite and
\* whole-valued, FractionLike iff finite with 0 < |v| < 1,
\* IntegerAndFractionalPart iff finite with |v| > 1 and not whole-valued, Nan
\* iff NaN, Infinity iff infinite; a FractionLike payload is nonzero and below
\* one in magnitude, an IntegerAndFractionalPart integer payload is at least
\* one in magnitude.
C9_VariantCharacterisesInput ==
    Called =>
        /\ ret.tag = "IntegerLike" <=> IsIntegerValued(f)
        /\ ret.tag = "FractionLike" <=> (AbsLtOne(f) /\ ~BitsZero(f))
        /\ ret.tag = "IntegerAndFractionalPart" <=> (AbsGtOne(f) /\ ~IsIntegerValued(f))
        /\ ret.tag = "Nan" <=> BitsNaN(f)
        /\ ret.tag = "Infinity" <=> BitsInf(f)
        /\ ret.tag = "FractionLike" => (AbsLtOne(ret.p[1]) /\ ~BitsZero(ret.p[1]))
        /\ ret.tag = "IntegerAndFractionalPart" => AbsGeOne(ret.p[1])
C9_Witness ==
    /\ Called
    /\ f = [s |-> 1, e |-> Bias - 1, m |-> 0]
    /\ ret = FractionLike(f)

\* C10: determinism and reflexive equality - two calls on the same input
\* return the same variant with the same payloads, every result equals itself
\* under the derived ==, and category(NaN) == Nan.
C10_DeterministicAndReflexive ==
    /\ calls >= 2 => (prev = ret /\ CatFloat_eq(prev, ret))
    /\ Called => CatFloat_eq(ret, ret)
    /\ (Called /\ BitsNaN(f)) => CatFloat_eq(ret, Nan)
C10_Witness == calls >= 2 /\ BitsNaN(f) /\ CatFloat_eq(prev, ret) /\ ret = Nan

====
